---- MODULE Spec2Model ----
(***************************************************************************)
(* Movie review backend: the review lifecycle (submit, edit, delete, mark  *)
(* helpful), the watchlist (add, update, remove, stats), the admin's movie *)
(* routes, the paginated listings and the rating aggregator                *)
(* (Movie.calculateAverageRating with the Review middleware that calls     *)
(* it), as request handlers running over a shared document store.          *)
(*                                                                         *)
(* Every `await` on a store operation is one atomic step of a request;     *)
(* requests interleave between their steps.  averageRating is kept in      *)
(* tenths (averageRating10 = 10 * averageRating), review text is kept by   *)
(* its length, and an absent request field is Undefined.                   *)
(***************************************************************************)
EXTENDS Integers, FiniteSets, Sequences, TLC

VARIABLES movies, reviews, watchlist, nextReviewId, req, response

vars == <<movies, reviews, watchlist, nextReviewId, req, response>>

-----------------------------------------------------------------------------
(* Bounds of the model *)

\* review _ids the store can hand out in one behaviour
MaxReviewIds == 2
\* Mark-helpful requests are sent while the stored counter is below this
MaxHelpful == 2
\* the most documents the filter of a listing matches
MaxItems == 5
\* movie updates with $inc are sent while they keep averageRating (in
\* tenths) within this distance of 0
MaxAverage10 == 60

-----------------------------------------------------------------------------
(* Program constants *)

MinRating == 1
MaxRating == 5
MinTextLen == 10
MaxTextLen == 2000
\* a request field that is not supplied (req.body.x === undefined)
Undefined == -1
\* no review (a null document)
NoReview == 0
NoMovie == "none"
NoUser == "none"

Users == {"u1", "u2"}
SeqUsers == {"u1", "u2", "u3"}
MovieIds == {"m1", "m2"}
Clients == {"c1", "c2"}
SeqClients == {"c1"}
ReviewIds == 1..MaxReviewIds
Statuses == {"want_to_watch", "watching", "watched"}

\* request inputs
SubmitRatings == {MinRating - 1, MinRating, MaxRating}
\* one rejected and one accepted rating
ConcRatings == {MinRating - 1, MaxRating}
SubmitTexts == {MinTextLen - 1, MinTextLen}
EditRatings == {Undefined, MinRating, MaxRating + 1}
EditTexts == {Undefined, MinTextLen + 1, MaxTextLen + 1}
\* the ratings and text lengths on both sides of each validation limit
LimitRatings == {MinRating - 1, MinRating, MaxRating, MaxRating + 1}
LimitTexts == {MinTextLen - 1, MinTextLen, MaxTextLen, MaxTextLen + 1}
\* an absent text and the text the review already has
ConcTexts == {Undefined, MinTextLen}
\* movieSchema.averageRating: min 0, max 5 (in tenths)
MinAverage10 == 0
TopAverage10 == 50
\* the bodies of a movie update: a plain averageRating field (a $set) that
\* is absent, below, within and above the schema's range, and an $inc
MovieBodies ==
  [op : {"set"}, averageRating10 : {Undefined, MinAverage10 - 10, 45,
                                    TopAverage10 + 10}]
  \cup [op : {"inc"}, averageRating10 : {-10, 10}]
\* the averageRating field of a new movie's body
NewMovieAverages == {Undefined, 45, TopAverage10 + 10}
\* an absent status, a valid one and one outside the enum
NoStatus == "undefined"
AddStatuses == {NoStatus, "watching", "bogus"}
\* the status of a watchlist update: a valid one and one outside the enum
UpdateStatuses == {"watched", "bogus"}

-----------------------------------------------------------------------------
(* Pure helpers *)

RECURSIVE SumRatings(_)
SumRatings(S) ==
  IF S = {} THEN 0
  ELSE LET r == CHOOSE x \in S : TRUE
       IN reviews[r].rating + SumRatings(S \ {r})

\* the reviews whose movieId is m ($lookup from 'reviews' on movieId)
ReviewsOf(m) == {r \in DOMAIN reviews : reviews[r].movieId = m}

\* Math.round(avg * 10) / 10 in tenths, avg = sum / count; $avg of no
\* reviews is null and Math.round(null * 10) is 0.  Math.round rounds a
\* half up.
Round10(sum, count) ==
  IF count = 0 THEN 0 ELSE (20 * sum + count) \div (2 * count)

Abs(x) == IF x < 0 THEN -x ELSE x

\* express-validator: isInt({min: 1, max: 5})
ValidRating(x) == x \in MinRating..MaxRating
\* express-validator: isLength({min: 10, max: 2000})
ValidText(x) == x \in MinTextLen..MaxTextLen

\* the request record of a client that has no request in flight
IdleReq ==
  [op |-> "none", pc |-> "idle", userId |-> NoUser, movieId |-> NoMovie,
   reviewId |-> NoReview, rating |-> Undefined, reviewText |-> Undefined,
   status |-> NoStatus, doc |-> Undefined, aggSum |-> 0, aggCount |-> 0]

InFlight(s) == req[s].pc # "idle"

\* res.status(...).json(...): the request is answered and its locals are
\* gone; `response` keeps the answer sent last
Respond(s, op, res) ==
  /\ req' = [req EXCEPT ![s] = IdleReq]
  /\ response' = [op |-> op, res |-> res]

\* the request goes on to its next store round trip
Proceed(s, r) ==
  /\ req' = [req EXCEPT ![s] = r]
  /\ UNCHANGED response

\* movieSchema defaults: averageRating 0, totalReviews 0
NewMovie == [averageRating10 |-> 0, totalReviews |-> 0]

-----------------------------------------------------------------------------
\* The catalog holds the movies an admin has added, none reviewed yet.
Init ==
  /\ movies = [m \in MovieIds |-> NewMovie]
  /\ reviews = <<>>
  /\ watchlist = {}
  /\ nextReviewId = 1
  /\ req = [s \in Clients |-> IdleReq]
  /\ response = [op |-> "none", res |-> "none"]

-----------------------------------------------------------------------------
(* Rating aggregator: Movie.calculateAverageRating, run by the Review      *)
(* middleware.  The aggregate() read and the findByIdAndUpdate() write are *)
(* two store round trips.                                                   *)

\* what the request answers once the middleware has returned
AfterHook(s) ==
  Respond(s, req[s].op, IF req[s].op = "submit" THEN "created" ELSE "ok")

\* the read with result[0] used without the `result.length > 0` test: the
\* TypeError rejects save() and the handler's catch answers 500
AggReadUnguarded(s) ==
  /\ req[s].pc = "aggRead"
  /\ LET m == req[s].movieId
     IN IF m \in DOMAIN movies
        THEN Proceed(s, [req[s] EXCEPT
                           !.pc = "aggWrite",
                           !.aggSum = SumRatings(ReviewsOf(m)),
                           !.aggCount = Cardinality(ReviewsOf(m))])
        ELSE Respond(s, req[s].op, "serverError")
  /\ UNCHANGED <<movies, reviews, watchlist, nextReviewId>>

\* this.aggregate([$match, $lookup, $addFields]); an empty result (the movie
\* is gone) skips the update
AggRead(s) ==
  /\ req[s].pc = "aggRead"
  /\ LET m == req[s].movieId
     IN IF m \in DOMAIN movies
        THEN Proceed(s, [req[s] EXCEPT
                           !.pc = "aggWrite",
                           !.aggSum = SumRatings(ReviewsOf(m)),
                           !.aggCount = Cardinality(ReviewsOf(m))])
        ELSE AfterHook(s)
  /\ UNCHANGED <<movies, reviews, watchlist, nextReviewId>>

\* the aggregate with $sum where the code has $avg
AggregateOfSum(sum, count) ==
  [averageRating10 |-> 10 * sum, totalReviews |-> count]

\* the document calculateAverageRating writes from its aggregate() result
Aggregate(sum, count) ==
  [averageRating10 |-> Round10(sum, count), totalReviews |-> count]

\* this.findByIdAndUpdate(movieId, {averageRating, totalReviews})
AggWrite(s) ==
  /\ req[s].pc = "aggWrite"
  /\ LET m == req[s].movieId
     IN movies' = IF m \in DOMAIN movies
                  THEN [movies EXCEPT
                          ![m] = Aggregate(req[s].aggSum, req[s].aggCount)]
                  ELSE movies
  /\ AfterHook(s)
  /\ UNCHANGED <<reviews, watchlist, nextReviewId>>

-----------------------------------------------------------------------------
(* Review routes *)

\* the stored review of (u, m), or NoReview: Review.findOne({userId, movieId})
FindReview(u, m) ==
  IF \E r \in DOMAIN reviews : reviews[r].userId = u /\ reviews[r].movieId = m
  THEN CHOOSE r \in DOMAIN reviews :
         reviews[r].userId = u /\ reviews[r].movieId = m
  ELSE NoReview

\* the submits in flight that have not inserted their review yet
SubmitsPending ==
  {c \in Clients : req[c].op = "submit" /\ req[c].pc \in {"findExisting", "save"}}

\* the submit without the Movie.findById(movieId) existence check
SubmitReviewNoMovieCheck(s, u, m, rating, text) ==
  /\ ~InFlight(s)
  /\ nextReviewId + Cardinality(SubmitsPending) <= MaxReviewIds
  /\ IF ~(ValidRating(rating) /\ ValidText(text))
     THEN Respond(s, "submit", "validation")
     ELSE Proceed(s, [IdleReq EXCEPT !.op = "submit", !.pc = "findExisting",
                                    !.userId = u, !.movieId = m,
                                    !.rating = rating, !.reviewText = text])
  /\ UNCHANGED <<movies, reviews, watchlist, nextReviewId>>

\* POST /reviews: validation, then Movie.findById(movieId); sent while the
\* store has a review _id left for it
SubmitReview(s, u, m, rating, text) ==
  /\ ~InFlight(s)
  /\ nextReviewId + Cardinality(SubmitsPending) <= MaxReviewIds
  /\ IF ~(ValidRating(rating) /\ ValidText(text))
     THEN Respond(s, "submit", "validation")
     ELSE IF m \notin DOMAIN movies
     THEN Respond(s, "submit", "notFound")
     ELSE Proceed(s, [IdleReq EXCEPT !.op = "submit", !.pc = "findExisting",
                                    !.userId = u, !.movieId = m,
                                    !.rating = rating, !.reviewText = text])
  /\ UNCHANGED <<movies, reviews, watchlist, nextReviewId>>

\* Review.findOne({userId, movieId}): 400 when the user already reviewed
SubmitFindExisting(s) ==
  /\ req[s].op = "submit" /\ req[s].pc = "findExisting"
  /\ IF FindReview(req[s].userId, req[s].movieId) # NoReview
     THEN Respond(s, "submit", "conflict")
     ELSE Proceed(s, [req[s] EXCEPT !.pc = "save"])
  /\ UNCHANGED <<movies, reviews, watchlist, nextReviewId>>

\* the insert without the unique index on {userId, movieId}
SubmitSaveNoIndex(s) ==
  /\ req[s].op = "submit" /\ req[s].pc = "save"
  /\ reviews' = reviews @@
        (nextReviewId :>
           [userId |-> req[s].userId, movieId |-> req[s].movieId,
            rating |-> req[s].rating,
            reviewText |-> req[s].reviewText, helpfulVotes |-> 0])
  /\ nextReviewId' = nextReviewId + 1
  /\ Proceed(s, [req[s] EXCEPT !.pc = "aggRead",
                               !.reviewId = nextReviewId])
  /\ UNCHANGED <<movies, watchlist>>

\* the insert without the post('save') middleware
SubmitSaveNoHook(s) ==
  /\ req[s].op = "submit" /\ req[s].pc = "save"
  /\ IF FindReview(req[s].userId, req[s].movieId) # NoReview
     THEN /\ Respond(s, "submit", "serverError")
          /\ UNCHANGED <<reviews, nextReviewId>>
     ELSE /\ reviews' = reviews @@
                (nextReviewId :>
                   [userId |-> req[s].userId, movieId |-> req[s].movieId,
                    rating |-> req[s].rating,
                    reviewText |-> req[s].reviewText, helpfulVotes |-> 0])
          /\ nextReviewId' = nextReviewId + 1
          /\ Respond(s, "submit", "created")
  /\ UNCHANGED <<movies, watchlist>>

\* review.save() of a new document: the insert fails on the unique index
\* {userId, movieId} (the handler's catch answers 500); a stored review
\* runs the post('save') middleware
SubmitSave(s) ==
  /\ req[s].op = "submit" /\ req[s].pc = "save"
  /\ IF FindReview(req[s].userId, req[s].movieId) # NoReview
     THEN /\ Respond(s, "submit", "serverError")
          /\ UNCHANGED <<reviews, nextReviewId>>
     ELSE /\ reviews' = reviews @@
                (nextReviewId :>
                   [userId |-> req[s].userId, movieId |-> req[s].movieId,
                    rating |-> req[s].rating,
                    reviewText |-> req[s].reviewText, helpfulVotes |-> 0])
          /\ nextReviewId' = nextReviewId + 1
          /\ Proceed(s, [req[s] EXCEPT !.pc = "aggRead",
                                !.reviewId = nextReviewId])
  /\ UNCHANGED <<movies, watchlist>>

\* PUT /reviews/:reviewId: validation (both fields optional), then
\* Review.findOne({_id: reviewId, userId})
UpdateReview(s, u, rid, rating, text) ==
  /\ ~InFlight(s)
  /\ IF ~((rating = Undefined \/ ValidRating(rating))
          /\ (text = Undefined \/ ValidText(text)))
     THEN Respond(s, "edit", "validation")
     ELSE IF ~(rid \in DOMAIN reviews /\ reviews[rid].userId = u)
     THEN Respond(s, "edit", "notFound")
     ELSE Proceed(s, [IdleReq EXCEPT !.op = "edit", !.pc = "update",
                                    !.userId = u, !.reviewId = rid,
                                    !.rating = rating, !.reviewText = text])
  /\ UNCHANGED <<movies, reviews, watchlist, nextReviewId>>

\* updateData built from both body fields without the `!== undefined` tests
ApplyUpdateBoth(doc, rating, text) ==
  [doc EXCEPT !.rating = rating, !.reviewText = text]

\* updateData: only the supplied fields
ApplyUpdate(doc, rating, text) ==
  [doc EXCEPT !.rating = IF rating # Undefined THEN rating ELSE @,
              !.reviewText = IF text # Undefined THEN text ELSE @]

\* the update done with review.save(), which runs the post('save')
\* middleware
UpdateReviewSave(s) ==
  /\ req[s].op = "edit" /\ req[s].pc = "update"
  /\ LET rid == req[s].reviewId
     IN IF rid \in DOMAIN reviews
        THEN /\ reviews' = [reviews EXCEPT
                  ![rid] = ApplyUpdate(@, req[s].rating, req[s].reviewText)]
             /\ Proceed(s, [req[s] EXCEPT
                              !.pc = "aggRead",
                              !.movieId = reviews[rid].movieId])
        ELSE /\ UNCHANGED reviews
             /\ Respond(s, "edit", "serverError")
  /\ UNCHANGED <<movies, watchlist, nextReviewId>>

\* Review.findByIdAndUpdate(reviewId, updateData, {new: true}): query
\* middleware only, so neither post('save') nor post('findOneAndDelete')
\* runs; the answer carries the updated document, null when it is gone
UpdateReviewWrite(s) ==
  /\ req[s].op = "edit" /\ req[s].pc = "update"
  /\ LET rid == req[s].reviewId
     IN IF rid \in DOMAIN reviews
        THEN /\ reviews' = [reviews EXCEPT
                  ![rid] = ApplyUpdate(@, req[s].rating, req[s].reviewText)]
             /\ Respond(s, "edit", "ok")
        ELSE /\ UNCHANGED reviews
             /\ Respond(s, "edit", "okNull")
  /\ UNCHANGED <<movies, watchlist, nextReviewId>>

\* `this.movieId` inside post('findOneAndDelete'): `this` is the Query, which
\* has no movieId property, whatever document was deleted
QueryMovieId(doc) == NoMovie

\* the delete with the filter {_id} where the code has {_id, userId}
DeleteReviewAnyOwner(s, u, rid) ==
  /\ ~InFlight(s)
  /\ IF rid \notin DOMAIN reviews
     THEN /\ Respond(s, "delete", "notFound")
          /\ UNCHANGED reviews
     ELSE /\ reviews' = [r \in DOMAIN reviews \ {rid} |-> reviews[r]]
          /\ Respond(s, "delete", "ok")
  /\ UNCHANGED <<movies, watchlist, nextReviewId>>

\* DELETE /reviews/:reviewId: Review.findOneAndDelete({_id, userId}), then
\* the post('findOneAndDelete') middleware: `if (this.movieId)`
DeleteReview(s, u, rid) ==
  /\ ~InFlight(s)
  /\ IF ~(rid \in DOMAIN reviews /\ reviews[rid].userId = u)
     THEN /\ Respond(s, "delete", "notFound")
          /\ UNCHANGED reviews
     ELSE /\ reviews' = [r \in DOMAIN reviews \ {rid} |-> reviews[r]]
          /\ IF QueryMovieId(reviews[rid]) # NoMovie
             THEN Proceed(s, [IdleReq EXCEPT
                               !.op = "delete", !.pc = "aggRead",
                               !.userId = u, !.reviewId = rid,
                               !.movieId = QueryMovieId(reviews[rid])])
             ELSE Respond(s, "delete", "ok")
  /\ UNCHANGED <<movies, watchlist, nextReviewId>>

\* the callers of a route: the users and a caller without an identity
Callers == Users \cup {NoUser}

\* authMiddleware lets a request through to its handler when the Auth
\* Gateway resolves an acting identity from it
AuthMiddleware(u) == u # NoUser

\* the Mark helpful that turns the review's own author away
MarkHelpfulNotAuthor(s, u, rid) ==
  /\ ~InFlight(s)
  /\ IF ~AuthMiddleware(u)
     THEN Respond(s, "helpful", "unauthorized")
     ELSE IF rid \notin DOMAIN reviews
     THEN Respond(s, "helpful", "notFound")
     ELSE IF reviews[rid].userId = u
     THEN Respond(s, "helpful", "forbidden")
     ELSE /\ reviews[rid].helpfulVotes < MaxHelpful
          /\ Proceed(s, [IdleReq EXCEPT !.op = "helpful", !.pc = "save",
                                       !.userId = u, !.reviewId = rid,
                                       !.movieId = reviews[rid].movieId,
                                       !.doc = reviews[rid].helpfulVotes])
  /\ UNCHANGED <<movies, reviews, watchlist, nextReviewId>>

\* POST /reviews/:reviewId/helpful: authMiddleware, then
\* Review.findById(reviewId)
MarkHelpful(s, u, rid) ==
  /\ ~InFlight(s)
  /\ IF ~AuthMiddleware(u)
     THEN Respond(s, "helpful", "unauthorized")
     ELSE IF rid \notin DOMAIN reviews
     THEN Respond(s, "helpful", "notFound")
     ELSE /\ reviews[rid].helpfulVotes < MaxHelpful
          /\ Proceed(s, [IdleReq EXCEPT !.op = "helpful", !.pc = "save",
                                       !.userId = u, !.reviewId = rid,
                                       !.movieId = reviews[rid].movieId,
                                       !.doc = reviews[rid].helpfulVotes])
  /\ UNCHANGED <<movies, reviews, watchlist, nextReviewId>>

\* the save whose rejection no catch turns into an answer: the request is
\* left without a response
MarkHelpfulSaveUncaught(s) ==
  /\ req[s].op = "helpful" /\ req[s].pc = "save"
  /\ LET rid == req[s].reviewId
     IN IF rid \in DOMAIN reviews
        THEN /\ reviews' = [reviews EXCEPT
                              ![rid].helpfulVotes = req[s].doc + 1]
             /\ Proceed(s, [req[s] EXCEPT !.pc = "aggRead"])
        ELSE /\ UNCHANGED reviews
             /\ Proceed(s, [req[s] EXCEPT !.pc = "rejected"])
  /\ UNCHANGED <<movies, watchlist, nextReviewId>>

\* review.helpfulVotes += 1; review.save(): the loaded document's new value
\* is written with $set; a document that is gone makes save() throw (500);
\* a saved one runs the post('save') middleware
MarkHelpfulSave(s) ==
  /\ req[s].op = "helpful" /\ req[s].pc = "save"
  /\ LET rid == req[s].reviewId
     IN IF rid \in DOMAIN reviews
        THEN /\ reviews' = [reviews EXCEPT
                              ![rid].helpfulVotes = req[s].doc + 1]
             /\ Proceed(s, [req[s] EXCEPT !.pc = "aggRead"])
        ELSE /\ UNCHANGED reviews
             /\ Respond(s, "helpful", "serverError")
  /\ UNCHANGED <<movies, watchlist, nextReviewId>>

-----------------------------------------------------------------------------
(* Watchlist routes *)

\* Watchlist.findOne({userId, movieId})
InWatchlist(u, m) == \E w \in watchlist : w.userId = u /\ w.movieId = m

\* POST /watchlist: validation, then Movie.findById(movieId); an absent
\* status defaults to want_to_watch
AddToWatchlist(s, u, m, status) ==
  /\ ~InFlight(s)
  /\ IF ~(status = NoStatus \/ status \in Statuses)
     THEN Respond(s, "wlAdd", "validation")
     ELSE IF m \notin DOMAIN movies
     THEN Respond(s, "wlAdd", "notFound")
     ELSE Proceed(s, [IdleReq EXCEPT
                       !.op = "wlAdd", !.pc = "findExisting",
                       !.userId = u, !.movieId = m,
                       !.status = IF status = NoStatus
                                  THEN "want_to_watch" ELSE status])
  /\ UNCHANGED <<movies, reviews, watchlist, nextReviewId>>

\* Watchlist.findOne({userId, movieId}): 400 when already in the watchlist
WatchlistFindExisting(s) ==
  /\ req[s].op = "wlAdd" /\ req[s].pc = "findExisting"
  /\ IF InWatchlist(req[s].userId, req[s].movieId)
     THEN Respond(s, "wlAdd", "conflict")
     ELSE Proceed(s, [req[s] EXCEPT !.pc = "save"])
  /\ UNCHANGED <<movies, reviews, watchlist, nextReviewId>>

\* the insert without the unique index on {userId, movieId}
WatchlistSaveNoIndex(s) ==
  /\ req[s].op = "wlAdd" /\ req[s].pc = "save"
  /\ watchlist' = watchlist \cup
        {[userId |-> req[s].userId, movieId |-> req[s].movieId,
          status |-> req[s].status]}
  /\ Respond(s, "wlAdd", "created")
  /\ UNCHANGED <<movies, reviews, nextReviewId>>

\* watchlistItem.save(): the insert fails on the unique index
\* {userId, movieId} (the handler's catch answers 500)
WatchlistSave(s) ==
  /\ req[s].op = "wlAdd" /\ req[s].pc = "save"
  /\ IF InWatchlist(req[s].userId, req[s].movieId)
     THEN /\ Respond(s, "wlAdd", "serverError")
          /\ UNCHANGED watchlist
     ELSE /\ watchlist' = watchlist \cup
                {[userId |-> req[s].userId, movieId |-> req[s].movieId,
                  status |-> req[s].status]}
          /\ Respond(s, "wlAdd", "created")
  /\ UNCHANGED <<movies, reviews, nextReviewId>>

\* PUT /watchlist/:movieId: validation, then
\* Watchlist.findOneAndUpdate({userId, movieId}, {status})
UpdateWatchlist(s, u, m, status) ==
  /\ ~InFlight(s)
  /\ IF status \notin Statuses
     THEN /\ UNCHANGED watchlist
          /\ Respond(s, "wlUpdate", "validation")
     ELSE IF ~InWatchlist(u, m)
     THEN /\ UNCHANGED watchlist
          /\ Respond(s, "wlUpdate", "notFound")
     ELSE /\ watchlist' =
               {w \in watchlist : ~(w.userId = u /\ w.movieId = m)}
               \cup {[userId |-> u, movieId |-> m, status |-> status]}
          /\ Respond(s, "wlUpdate", "ok")
  /\ UNCHANGED <<movies, reviews, nextReviewId>>

\* a removal that does not look at what the store removed: it answers
\* success also when no entry matched
RemoveFromWatchlistUnchecked(s, u, m) ==
  /\ ~InFlight(s)
  /\ watchlist' = {w \in watchlist : ~(w.userId = u /\ w.movieId = m)}
  /\ Respond(s, "wlRemove", "ok")
  /\ UNCHANGED <<movies, reviews, nextReviewId>>

\* DELETE /watchlist/:movieId: Watchlist.findOneAndDelete({userId, movieId})
RemoveFromWatchlist(s, u, m) ==
  /\ ~InFlight(s)
  /\ IF ~InWatchlist(u, m)
     THEN /\ UNCHANGED watchlist
          /\ Respond(s, "wlRemove", "notFound")
     ELSE /\ watchlist' =
               {w \in watchlist : ~(w.userId = u /\ w.movieId = m)}
          /\ Respond(s, "wlRemove", "ok")
  /\ UNCHANGED <<movies, reviews, nextReviewId>>

\* Watchlist.aggregate([{$match: {userId}}, {$group: {_id: '$status',
\* count: {$sum: 1}}}]): one group per status the user has an entry with
GroupByStatus(u) ==
  {[_id |-> st,
    count |-> Cardinality({w \in watchlist : w.userId = u /\ w.status = st})] :
     st \in {w.status : w \in {x \in watchlist : x.userId = u}}}

\* the object the handler starts formattedStats with
ZeroStats == [want_to_watch |-> 0, watching |-> 0, watched |-> 0, total |-> 0]

\* the forEach with `total = stat.count` where the code has `+=`
RECURSIVE FormatStatsLastTotal(_, _)
FormatStatsLastTotal(stats, formatted) ==
  IF stats = {} THEN formatted
  ELSE LET stat == CHOOSE x \in stats : TRUE
       IN FormatStatsLastTotal(stats \ {stat},
            [formatted EXCEPT ![stat._id] = stat.count,
                              !.total = stat.count])

\* stats.forEach(stat => { formattedStats[stat._id] = stat.count;
\* formattedStats.total += stat.count })
RECURSIVE FormatStats(_, _)
FormatStats(stats, formatted) ==
  IF stats = {} THEN formatted
  ELSE LET stat == CHOOSE x \in stats : TRUE
       IN FormatStats(stats \ {stat},
            [formatted EXCEPT ![stat._id] = stat.count,
                              !.total = @ + stat.count])

\* GET /watchlist/stats: the answer's res is the stats object of the body
GetWatchlistStats(s, u) ==
  /\ ~InFlight(s)
  /\ Respond(s, "wlStats", FormatStats(GroupByStatus(u), ZeroStats))
  /\ UNCHANGED <<movies, reviews, watchlist, nextReviewId>>

-----------------------------------------------------------------------------
(* User routes.  A stored userId is an ObjectId; the :id of a route is the   *)
(* string of one.                                                            *)

\* the 24-digit string of the ObjectId u, as it stands in a URL
ToHexString(u) == "hex(" \o u \o ")"

\* the :id of a request: the string of a user's _id or of no user's
UserIdParams == {ToHexString(u) : u \in Users} \cup {ToHexString("u9")}

\* the cast Mongoose applies to the filter of find, findById and
\* countDocuments, and not to the stages of an aggregate() pipeline
CastToObjectId(id) ==
  IF \E u \in Users : ToHexString(u) = id
  THEN CHOOSE u \in Users : ToHexString(u) = id
  ELSE NoUser

\* the number of reviews whose userId equals the value
ReviewCount(value) ==
  Cardinality({r \in DOMAIN reviews : reviews[r].userId = value})

\* GET /users/:id: User.findById(id); Review.countDocuments({userId: id});
\* Watchlist.aggregate([{$match: {userId: id}}, {$group: ...}]) with the
\* string id in the pipeline
GetUserProfile(s, id) ==
  /\ ~InFlight(s)
  /\ IF CastToObjectId(id) = NoUser
     THEN Respond(s, "profile", [status |-> 404])
     ELSE Respond(s, "profile",
            [status |-> 200,
             totalReviews |-> ReviewCount(CastToObjectId(id)),
             watchlistStats |-> FormatStats(GroupByStatus(id), ZeroStats)])
  /\ UNCHANGED <<movies, reviews, watchlist, nextReviewId>>

\* GET /users/:id/stats: User.findById(id); Review.aggregate([{$match:
\* {userId: id}}, {$group: {_id: null, totalReviews: {$sum: 1}, ...}}]), an
\* empty result answered as totalReviews 0; Watchlist.aggregate as above
GetUserStats(s, id) ==
  /\ ~InFlight(s)
  /\ IF CastToObjectId(id) = NoUser
     THEN Respond(s, "userStats", [status |-> 404])
     ELSE Respond(s, "userStats",
            [status |-> 200,
             totalReviews |-> ReviewCount(id),
             watchlistStats |-> FormatStats(GroupByStatus(id), ZeroStats)])
  /\ UNCHANGED <<movies, reviews, watchlist, nextReviewId>>

-----------------------------------------------------------------------------
(* Listings: GET /reviews/movie/:movieId, /reviews/user/:userId,            *)
(* /reviews/my-reviews, GET /watchlist and GET /movies.  The documents the  *)
(* filter matches, in the order of the sort, are numbered 1..total.         *)

\* parseInt of a string that does not start with a number, or of undefined
NaN == -999
\* query('limit').isInt({min: 1, max: 50}) of GET /movies
MaxMoviesLimit == 50
\* the default limits of the review, watchlist and movie listings
ReviewsLimit == 10
WatchlistLimit == 20
MoviesLimit == 12

\* a query parameter: absent, a text that is no number, or an integer
QueryValues(ints) ==
  {[kind |-> "absent", n |-> 0], [kind |-> "text", n |-> 0]}
  \cup [kind : {"int"}, n : ints]

PageQueries == QueryValues({-1, 0, 1, 2, 3, 4})
LimitQueries == QueryValues({-2, 0, 1, 2, 3, MaxMoviesLimit + 1})

\* parseInt(req.query.x)
ParseInt(q) == IF q.kind = "int" THEN q.n ELSE NaN

\* v || default: NaN and 0 are falsy
OrDefault(v, default) == IF v = NaN \/ v = 0 THEN default ELSE v

\* const page = parseInt(req.query.page) || 1
PageOf(pageQuery) == OrDefault(ParseInt(pageQuery), 1)

\* const limit = parseInt(req.query.limit) || <default>
LimitOf(limitQuery, default) == OrDefault(ParseInt(limitQuery), default)

\* const skip = (page - 1) * limit
SkipOf(pageQuery, limitQuery, default) ==
  (PageOf(pageQuery) - 1) * LimitOf(limitQuery, default)

\* Math.ceil(total / limit), limit # 0
Ceil(total, limit) ==
  IF limit > 0 THEN (total + limit - 1) \div limit
  ELSE -(total \div (-limit))

\* find(filter).sort(...).skip(skip).limit(limit): the positions returned;
\* a negative limit returns Abs(limit) documents in a single batch
Find(total, skip, limit) ==
  [i \in 1..(IF skip + Abs(limit) <= total
             THEN Abs(limit)
             ELSE IF skip >= total THEN 0 ELSE total - skip) |-> skip + i]

\* the find() and countDocuments() of a listing and its pagination object;
\* a negative skip makes find() throw (the handler's catch answers 500)
Listing(total, pageQuery, limitQuery, default) ==
  LET page == PageOf(pageQuery)
      limit == LimitOf(limitQuery, default)
      skip == SkipOf(pageQuery, limitQuery, default)
      totalPages == Ceil(total, limit)
  IN IF skip < 0 THEN [status |-> 500]
     ELSE [status |-> 200,
           items |-> Find(total, skip, limit),
           currentPage |-> page,
           totalPages |-> totalPages,
           totalItems |-> total,
           hasNext |-> page < totalPages,
           hasPrev |-> page > 1]

\* GET /reviews/movie/:movieId, /reviews/user/:userId, /reviews/my-reviews
\* with a filter that matches `total` reviews
ListReviews(s, total, pageQuery, limitQuery) ==
  /\ ~InFlight(s)
  /\ Respond(s, "listReviews",
             Listing(total, pageQuery, limitQuery, ReviewsLimit))
  /\ UNCHANGED <<movies, reviews, watchlist, nextReviewId>>

\* GET /watchlist with a filter that matches `total` entries
ListWatchlist(s, total, pageQuery, limitQuery) ==
  /\ ~InFlight(s)
  /\ Respond(s, "listWatchlist",
             Listing(total, pageQuery, limitQuery, WatchlistLimit))
  /\ UNCHANGED <<movies, reviews, watchlist, nextReviewId>>

\* query('page').optional().isInt({min: 1})
ValidPage(q) == q.kind = "absent" \/ (q.kind = "int" /\ q.n >= 1)

\* query('limit').optional().isInt({min: 1, max: 50})
ValidLimit(q) ==
  q.kind = "absent" \/ (q.kind = "int" /\ q.n >= 1 /\ q.n <= MaxMoviesLimit)

\* GET /movies with a filter that matches `total` movies: page and limit are
\* validated first
ListMovies(s, total, pageQuery, limitQuery) ==
  /\ ~InFlight(s)
  /\ IF ~(ValidPage(pageQuery) /\ ValidLimit(limitQuery))
     THEN Respond(s, "listMovies", [status |-> 400])
     ELSE Respond(s, "listMovies",
                  Listing(total, pageQuery, limitQuery, MoviesLimit))
  /\ UNCHANGED <<movies, reviews, watchlist, nextReviewId>>

-----------------------------------------------------------------------------
(* Movie routes *)

\* a delete that cascades: the movie's reviews and watchlist entries are
\* removed with it
DeleteMovieCascade(s, m) ==
  /\ ~InFlight(s)
  /\ IF m \in DOMAIN movies
     THEN /\ movies' = [x \in DOMAIN movies \ {m} |-> movies[x]]
          /\ reviews' = [r \in {x \in DOMAIN reviews :
                                  reviews[x].movieId # m} |-> reviews[r]]
          /\ watchlist' = {w \in watchlist : w.movieId # m}
          /\ Respond(s, "movieDelete", "ok")
     ELSE /\ UNCHANGED <<movies, reviews, watchlist>>
          /\ Respond(s, "movieDelete", "notFound")
  /\ UNCHANGED nextReviewId

\* DELETE /movies/:id: Movie.findByIdAndDelete(id)
DeleteMovie(s, m) ==
  /\ ~InFlight(s)
  /\ IF m \in DOMAIN movies
     THEN /\ movies' = [x \in DOMAIN movies \ {m} |-> movies[x]]
          /\ Respond(s, "movieDelete", "ok")
     ELSE /\ UNCHANGED movies
          /\ Respond(s, "movieDelete", "notFound")
  /\ UNCHANGED <<reviews, watchlist, nextReviewId>>

\* no stored record and no request in flight refers to the id m, so m can
\* stand for the _id of a new document
UnusedMovieId(m) ==
  /\ m \notin DOMAIN movies
  /\ \A r \in DOMAIN reviews : reviews[r].movieId # m
  /\ \A w \in watchlist : w.movieId # m
  /\ \A c \in Clients : req[c].movieId # m

\* movieSchema.averageRating validators: min 0, max 5
ValidAverage(a) == a \in MinAverage10..TopAverage10

\* POST /movies: new Movie(req.body).save(); save() validates the document
\* (the handler's catch answers 500) and an absent averageRating takes the
\* schema default
AddMovie(s, m, average) ==
  /\ ~InFlight(s)
  /\ UnusedMovieId(m)
  /\ IF average # Undefined /\ ~ValidAverage(average)
     THEN /\ UNCHANGED movies
          /\ Respond(s, "movieAdd", "serverError")
     ELSE /\ movies' = [x \in DOMAIN movies \cup {m} |->
                          IF x # m THEN movies[x]
                          ELSE IF average = Undefined THEN NewMovie
                          ELSE [NewMovie EXCEPT !.averageRating10 = average]]
          /\ Respond(s, "movieAdd", "created")
  /\ UNCHANGED <<reviews, watchlist, nextReviewId>>

\* PUT /movies/:id: Movie.findByIdAndUpdate(id, req.body, {new: true,
\* runValidators: true}).  Update validators run on the fields the body
\* sets ($set) before the query is sent, and not on $inc.
UpdateMovie(s, m, body) ==
  /\ ~InFlight(s)
  /\ body.op = "inc" =>
       Abs(IF m \in DOMAIN movies
           THEN movies[m].averageRating10 + body.averageRating10
           ELSE 0) <= MaxAverage10
  /\ IF /\ body.op = "set" /\ body.averageRating10 # Undefined
        /\ ~ValidAverage(body.averageRating10)
     THEN /\ UNCHANGED movies
          /\ Respond(s, "movieUpdate", "serverError")
     ELSE IF m \notin DOMAIN movies
     THEN /\ UNCHANGED movies
          /\ Respond(s, "movieUpdate", "notFound")
     ELSE /\ movies' = [movies EXCEPT ![m].averageRating10 =
                          IF body.op = "inc" THEN @ + body.averageRating10
                          ELSE IF body.averageRating10 = Undefined THEN @
                          ELSE body.averageRating10]
          /\ Respond(s, "movieUpdate", "ok")
  /\ UNCHANGED <<reviews, watchlist, nextReviewId>>

-----------------------------------------------------------------------------
(* Specifications *)

\* the middleware's aggregator takes its next store round trip
HookStep(s) == AggRead(s) \/ AggWrite(s)

\* a submit request starts or takes its next store round trip
SubmitStep(s, users, ratings) ==
  \/ \E u \in users, m \in MovieIds, rating \in ratings,
        text \in SubmitTexts : SubmitReview(s, u, m, rating, text)
  \/ SubmitFindExisting(s)
  \/ SubmitSave(s)

\* a submit request with inputs at the validation limits
SubmitLimitStep(s) ==
  \/ \E u \in Users, m \in MovieIds, rating \in LimitRatings,
        text \in LimitTexts : SubmitReview(s, u, m, rating, text)
  \/ SubmitFindExisting(s)
  \/ SubmitSave(s)

\* an edit request starts or takes its next store round trip
EditStep(s, users, texts) ==
  \/ \E u \in users, rid \in ReviewIds, rating \in EditRatings,
        text \in texts : UpdateReview(s, u, rid, rating, text)
  \/ UpdateReviewWrite(s)

\* a delete request
DeleteStep(s, users) ==
  \E u \in users, rid \in ReviewIds : DeleteReview(s, u, rid)

\* a Mark-helpful request starts or saves
HelpfulStep(s) ==
  \/ \E u \in Callers, rid \in ReviewIds : MarkHelpful(s, u, rid)
  \/ MarkHelpfulSave(s)

\* an admin deletes a movie
CatalogStep(s) == \E m \in MovieIds : DeleteMovie(s, m)

\* a watchlist request starts or takes its next store round trip
WatchlistStep(s, users) ==
  \/ \E u \in users, m \in MovieIds, status \in AddStatuses :
        AddToWatchlist(s, u, m, status)
  \/ WatchlistFindExisting(s)
  \/ WatchlistSave(s)

\* requests run one at a time: one client, each request run to its answer
NextSeq ==
  \E s \in SeqClients :
    \/ SubmitStep(s, SeqUsers, SubmitRatings)
    \/ EditStep(s, SeqUsers, EditTexts)
    \/ DeleteStep(s, SeqUsers)
    \/ HookStep(s)
    \/ CatalogStep(s)

SpecSeq == Init /\ [][NextSeq]_vars

\* submit, edit and delete requests of several clients, interleaved at
\* their store round trips
Next ==
  \E s \in Clients :
    \/ SubmitStep(s, Users, ConcRatings)
    \/ EditStep(s, Users, ConcTexts)
    \/ DeleteStep(s, Users)
    \/ HookStep(s)

Spec == Init /\ [][Next]_vars

\* submit requests of several clients, interleaved
NextRace ==
  \E s \in Clients : SubmitStep(s, Users, SubmitRatings) \/ HookStep(s)

SpecRace == Init /\ [][NextRace]_vars

\* Mark-helpful requests of several clients, interleaved with each other and
\* with the requests that create and remove reviews
NextHelpful ==
  \E s \in Clients :
    \/ SubmitStep(s, Users, ConcRatings)
    \/ DeleteStep(s, Users)
    \/ HelpfulStep(s)
    \/ HookStep(s)

SpecHelpful == Init /\ [][NextHelpful]_vars

\* submit and Mark-helpful requests of several clients, interleaved with an
\* admin's movie deletions
NextCatalog ==
  \E s \in Clients :
    \/ SubmitStep(s, Users, ConcRatings)
    \/ HelpfulStep(s)
    \/ CatalogStep(s)
    \/ HookStep(s)

SpecCatalog == Init /\ [][NextCatalog]_vars

\* submits with inputs at the validation limits, one at a time, while an
\* admin deletes movies
NextSubmit ==
  \E s \in SeqClients :
    \/ SubmitLimitStep(s)
    \/ HookStep(s)
    \/ CatalogStep(s)

SpecSubmit == Init /\ [][NextSubmit]_vars

\* submit, edit and Mark-helpful requests, one at a time
NextEdit ==
  \E s \in SeqClients :
    \/ SubmitStep(s, Users, ConcRatings)
    \/ EditStep(s, Users, EditTexts)
    \/ HelpfulStep(s)
    \/ HookStep(s)

SpecEdit == Init /\ [][NextEdit]_vars

\* an admin adds, updates or deletes a movie
AdminStep(s) ==
  \/ \E m \in MovieIds, average \in NewMovieAverages : AddMovie(s, m, average)
  \/ \E m \in MovieIds, body \in MovieBodies : UpdateMovie(s, m, body)
  \/ \E m \in MovieIds : DeleteMovie(s, m)

\* submits and the admin's catalog requests, one at a time
NextMovies ==
  \E s \in SeqClients :
    \/ SubmitStep(s, Users, ConcRatings)
    \/ HookStep(s)
    \/ AdminStep(s)

SpecMovies == Init /\ [][NextMovies]_vars

\* a watchlist entry's status is updated, or the entry is removed
WatchlistChangeStep(s, users) ==
  \/ \E u \in users, m \in MovieIds, status \in UpdateStatuses :
        UpdateWatchlist(s, u, m, status)
  \/ \E u \in users, m \in MovieIds : RemoveFromWatchlist(s, u, m)

\* watchlist adds, updates, removals and stats requests, one at a time
NextStats ==
  \E s \in SeqClients :
    \/ WatchlistStep(s, Users)
    \/ WatchlistChangeStep(s, Users)
    \/ \E u \in Users : GetWatchlistStats(s, u)

SpecStats == Init /\ [][NextStats]_vars

\* listing requests over every number of matching documents
NextList ==
  \E s \in SeqClients, total \in 0..MaxItems,
     pageQuery \in PageQueries, limitQuery \in LimitQueries :
    \/ ListReviews(s, total, pageQuery, limitQuery)
    \/ ListWatchlist(s, total, pageQuery, limitQuery)
    \/ ListMovies(s, total, pageQuery, limitQuery)

SpecList == Init /\ [][NextList]_vars

\* the one user of the requests of SpecOrphans and SpecLive
LiveUsers == {"u1"}
\* the movie the review requests of SpecLive are about
LiveMovies == {"m1"}

\* reviews and watchlist entries of one user, and the statistics of the
\* users, one request at a time
NextUsers ==
  \E s \in SeqClients :
    \/ SubmitStep(s, LiveUsers, ConcRatings)
    \/ HookStep(s)
    \/ WatchlistStep(s, LiveUsers)
    \/ \E u \in Users : GetWatchlistStats(s, u)
    \/ \E id \in UserIdParams : GetUserProfile(s, id)
    \/ \E id \in UserIdParams : GetUserStats(s, id)

SpecUsers == Init /\ [][NextUsers]_vars

\* reviews and watchlist entries of one user, and an admin's movie
\* deletions, one request at a time
NextOrphans ==
  \E s \in SeqClients :
    \/ SubmitStep(s, LiveUsers, ConcRatings)
    \/ HookStep(s)
    \/ WatchlistStep(s, LiveUsers)
    \/ CatalogStep(s)

SpecOrphans == Init /\ [][NextOrphans]_vars

\* no review is stored or being worked on
ReviewsUntouched ==
  /\ DOMAIN reviews = {} /\ nextReviewId = 1
  /\ \A c \in Clients : req[c].op \notin {"submit", "edit", "helpful"}

\* no watchlist entry is stored or being worked on
WatchlistUntouched ==
  /\ watchlist = {}
  /\ \A c \in Clients : req[c].op # "wlAdd"

\* a review request arrives; the review routes and the watchlist routes
\* share no collection, so each kind is run with the other's collection
\* empty
ReviewStart(s) ==
  /\ WatchlistUntouched
  /\ \/ \E u \in LiveUsers, m \in LiveMovies, rating \in ConcRatings,
           text \in SubmitTexts : SubmitReview(s, u, m, rating, text)
     \/ \E u \in LiveUsers, rid \in ReviewIds, rating \in EditRatings,
           text \in ConcTexts : UpdateReview(s, u, rid, rating, text)
     \/ \E u \in LiveUsers, rid \in ReviewIds : DeleteReview(s, u, rid)
     \/ \E u \in Callers, rid \in ReviewIds : MarkHelpful(s, u, rid)

\* a watchlist request arrives
WatchlistStart(s) ==
  /\ ReviewsUntouched
  /\ \/ \E u \in LiveUsers, m \in MovieIds, status \in AddStatuses :
           AddToWatchlist(s, u, m, status)
     \/ WatchlistChangeStep(s, LiveUsers)
     \/ \E u \in LiveUsers : GetWatchlistStats(s, u)

\* the store round trip a request in flight waits for returns, and the
\* handler runs on
Continue(s) ==
  \/ SubmitFindExisting(s)
  \/ SubmitSave(s)
  \/ UpdateReviewWrite(s)
  \/ MarkHelpfulSave(s)
  \/ HookStep(s)
  \/ WatchlistFindExisting(s)
  \/ WatchlistSave(s)

\* review and watchlist requests of several clients, interleaved
NextLive ==
  \E s \in Clients : ReviewStart(s) \/ WatchlistStart(s) \/ Continue(s)

\* every store round trip eventually returns or fails
SpecLive ==
  /\ Init /\ [][NextLive]_vars
  /\ \A s \in Clients : WF_vars(Continue(s))

\* watchlist requests of several clients, interleaved
NextWatch ==
  \E s \in Clients :
    \/ WatchlistStep(s, Users)
    \/ WatchlistChangeStep(s, Users)
    \/ CatalogStep(s)

SpecWatch == Init /\ [][NextWatch]_vars

-----------------------------------------------------------------------------
(* Properties *)

Quiescent == \A s \in Clients : ~InFlight(s)

\* a (in tenths) is the mean of the ratings of the reviews S rounded to one
\* decimal place, 0 when there are none
IsRoundedMean(a, S) ==
  IF S = {} THEN a = 0
  ELSE 2 * Abs(10 * SumRatings(S) - a * Cardinality(S)) <= Cardinality(S)

AverageMatches(m) ==
  IsRoundedMean(movies[m].averageRating10, ReviewsOf(m))

\* movie m's aggregate fields agree with its stored reviews
AggregatesMatch(m) ==
  /\ AverageMatches(m)
  /\ movies[m].totalReviews = Cardinality(ReviewsOf(m))

\* this step answers a submit of client s for movie m with 201
SubmitCreated(s, m) ==
  /\ req[s].op = "submit" /\ req[s].movieId = m
  /\ req'[s] = IdleReq
  /\ response' = [op |-> "submit", res |-> "created"]

\* this step is the update of an edit of client s that changes the rating of
\* a review of movie m, and answers the edit
RatingEdited(s, m) ==
  /\ req[s].op = "edit" /\ req'[s] = IdleReq
  /\ req[s].reviewId \in DOMAIN reviews \cap DOMAIN reviews'
  /\ reviews[req[s].reviewId].movieId = m
  /\ reviews'[req[s].reviewId].rating # reviews[req[s].reviewId].rating

\* this step answers a delete of a review of movie m with 200
DeleteAnswered(m) ==
  /\ response' = [op |-> "delete", res |-> "ok"]
  /\ \/ /\ \E rid \in DOMAIN reviews \ DOMAIN reviews' :
             reviews[rid].movieId = m
        /\ req' = req
     \/ \E s \in Clients :
          req[s].op = "delete" /\ req[s].movieId = m /\ req'[s] = IdleReq

\* C1: with requests run one at a time, when a submit, a rating-changing
\* edit or a delete of a review of movie M has been answered, M's
\* averageRating is the rounded mean of M's stored ratings (0 for none) and
\* M's totalReviews is their number.
C1_AggregatesFollowReviews ==
  [][\A m \in MovieIds :
       (/\ m \in DOMAIN movies'
        /\ \/ \E s \in Clients : SubmitCreated(s, m)
           \/ \E s \in Clients : RatingEdited(s, m)
           \/ DeleteAnswered(m))
       => AggregatesMatch(m)']_vars

\* C4: when an edit that changes a review's rating has been answered, the
\* movie's averageRating is the rounded mean that includes the new rating.
C4_RatingEditRecomputes ==
  [][\A m \in MovieIds, s \in Clients :
       (m \in DOMAIN movies' /\ RatingEdited(s, m)) => AverageMatches(m)']_vars

\* C5: when a delete of a review has been answered, the movie's totalReviews
\* has dropped by one and its aggregates are those of the remaining reviews
\* (0 and 0 when none remains).
C5_DeleteRecomputes ==
  [][\A m \in MovieIds :
       (m \in DOMAIN movies' /\ DeleteAnswered(m))
       => /\ movies'[m].totalReviews = movies[m].totalReviews - 1
          /\ AggregatesMatch(m)']_vars

\* C6: with no other request in flight, at the step that answers a submit
\* with 201 the review is stored and the movie's averageRating and
\* totalReviews already count it.
C6_SubmitAggregatesBeforeAnswer ==
  [][\A m \in MovieIds, s \in Clients :
       SubmitCreated(s, m)
       => /\ m \in DOMAIN movies'
          /\ req[s].reviewId \in ReviewsOf(m)'
          /\ AggregatesMatch(m)']_vars

\* C6 witness: a submit was just answered 201 for a movie whose two stored
\* reviews (ratings 1 and 5) are both counted, averageRating 3.0
C6_Witness ==
  /\ Quiescent
  /\ response = [op |-> "submit", res |-> "created"]
  /\ \E m \in DOMAIN movies :
       /\ Cardinality(ReviewsOf(m)) = 2
       /\ movies[m] = [averageRating10 |-> 30, totalReviews |-> 2]

\* no two stored reviews have the same user and movie
UniqueReviews ==
  \A r1, r2 \in DOMAIN reviews :
    (reviews[r1].userId = reviews[r2].userId
     /\ reviews[r1].movieId = reviews[r2].movieId) => r1 = r2

\* client s takes a step of its submit while its user already has a stored
\* review of the movie
SubmitOverExisting(s) ==
  /\ req[s].op = "submit" /\ req'[s] # req[s]
  /\ FindReview(req[s].userId, req[s].movieId) # NoReview

\* C2: in every reachable state there is at most one review per (userId,
\* movieId); a submit whose lookup finds the user's review of the movie
\* answers conflict, and no step of a submit taken while that review is
\* stored adds a record or changes a stored review.
C2_OneReviewPerUserAndMovie ==
  /\ []UniqueReviews
  /\ [][\A s \in Clients :
          SubmitOverExisting(s)
          => /\ reviews' = reviews
             /\ req[s].pc = "findExisting"
                => response' = [op |-> "submit", res |-> "conflict"]]_vars

\* C2 witness: a submit was just answered conflict and the review it ran
\* into is stored
C2_Witness ==
  /\ Quiescent
  /\ response = [op |-> "submit", res |-> "conflict"]
  /\ DOMAIN reviews # {}

\* C3: of two submits for the same (user, movie) that both passed the
\* lookup, the one that inserts second is answered with the conflict
\* response.
C3_RaceLoserGetsConflict ==
  [][\A s \in Clients :
       (SubmitOverExisting(s) /\ req[s].pc = "save")
       => response' = [op |-> "submit", res |-> "conflict"]]_vars

\* C7: with submits only, once every request is answered a reviewed movie's
\* aggregates are those of some non-empty set of its stored reviews, the
\* set the last aggregator write had read, which need not be all of them.
C7_AggregateIsSomeRead ==
  Quiescent =>
    \A m \in DOMAIN movies :
      IF ReviewsOf(m) = {}
      THEN movies[m] = NewMovie
      ELSE \E S \in SUBSET ReviewsOf(m) :
             /\ S # {}
             /\ movies[m].totalReviews = Cardinality(S)
             /\ IsRoundedMean(movies[m].averageRating10, S)

\* C7 witness: both submits are answered, nothing is in flight, the movie
\* has two stored reviews and totalReviews 1
C7_Witness ==
  /\ Quiescent
  /\ response = [op |-> "submit", res |-> "created"]
  /\ \E m \in DOMAIN movies :
       /\ Cardinality(ReviewsOf(m)) = 2
       /\ movies[m].totalReviews = 1
       /\ ~AggregatesMatch(m)

\* the edit of client s leaves the rating as it is: none supplied, or the
\* one supplied is the stored one
TextOnly(s) ==
  \/ req[s].rating = Undefined
  \/ /\ req[s].pc = "update"
     /\ req[s].reviewId \in DOMAIN reviews
     /\ reviews[req[s].reviewId].rating = req[s].rating

\* C8: no step of an edit that supplies only review text (rating absent or
\* equal to the stored one) changes any movie's averageRating or
\* totalReviews.
C8_TextEditKeepsAggregates ==
  [][\A s \in Clients :
       (req[s].op = "edit" /\ req'[s] # req[s] /\ TextOnly(s))
       => movies' = movies]_vars

\* C8 witness: an edit was just answered 200 and a stored review has the
\* edited text with the rating it was submitted with, on a movie whose
\* aggregates count a review
C8_Witness ==
  /\ Quiescent
  /\ response = [op |-> "edit", res |-> "ok"]
  /\ \E r \in DOMAIN reviews :
       /\ reviews[r].reviewText = MinTextLen + 1
       /\ reviews[r].rating = MaxRating
       /\ reviews[r].movieId \in DOMAIN movies
       /\ movies[reviews[r].movieId].totalReviews >= 1

\* C9: the save of every Mark-helpful call leaves the stored helpfulVotes
\* exactly 1 higher than it was, in any interleaving, and never negative.
C9_HelpfulAddsOne ==
  [][\A s \in Clients :
       (/\ req[s].op = "helpful" /\ req[s].pc = "save"
        /\ req'[s] # req[s]
        /\ req[s].reviewId \in DOMAIN reviews)
       => /\ reviews'[req[s].reviewId].helpfulVotes
               = reviews[req[s].reviewId].helpfulVotes + 1
          /\ reviews'[req[s].reviewId].helpfulVotes >= 0]_vars

\* C10: no step takes a stored review's helpfulVotes to a lower value.
C10_HelpfulNeverDecreases ==
  [][\A r \in DOMAIN reviews \cap DOMAIN reviews' :
       reviews'[r].helpfulVotes >= reviews[r].helpfulVotes]_vars

\* the stored data: every record of every collection
Store == <<movies, reviews, watchlist, nextReviewId>>

\* user u does not own a stored review with id rid
NotOwned(u, rid) == rid \notin DOMAIN reviews \/ reviews[rid].userId # u

\* the body of an edit request passes its validation
ValidEdit(rating, text) ==
  /\ rating = Undefined \/ ValidRating(rating)
  /\ text = Undefined \/ ValidText(text)

\* this step changes the stored review r or removes it
ReviewTouched(r) == r \notin DOMAIN reviews' \/ reviews'[r] # reviews[r]

\* this step is a step of an edit or a delete sent by user u for review r
OwnStep(u, r) ==
  \/ \E s \in Clients : DeleteReview(s, u, r)
  \/ \E s \in Clients :
       /\ req[s].op = "edit" /\ req[s].userId = u /\ req[s].reviewId = r
       /\ req'[s] = IdleReq

\* C11: an edit (with a valid body) or a delete of a review that exists but
\* belongs to another user is answered 'not found', as for an id that does
\* not exist, and changes no record; and every step that changes or removes
\* a stored review is a step of an edit or delete sent by its owner.
C11_OnlyOwnerEditsOrDeletes ==
  /\ [][\A s \in Clients, u \in Users, rid \in ReviewIds :
         /\ (NotOwned(u, rid) /\ DeleteReview(s, u, rid))
            => /\ response' = [op |-> "delete", res |-> "notFound"]
               /\ Store' = Store
         /\ \A rating \in EditRatings, text \in EditTexts :
              (/\ NotOwned(u, rid) /\ ValidEdit(rating, text)
               /\ UpdateReview(s, u, rid, rating, text))
              => /\ response' = [op |-> "edit", res |-> "notFound"]
                 /\ Store' = Store]_vars
  /\ [][\A r \in DOMAIN reviews :
         ReviewTouched(r) => OwnStep(reviews[r].userId, r)]_vars

\* C11 witness: every review id is stored, owned by two different users,
\* and the request answered last was a delete answered 'not found'
C11_Witness ==
  /\ Quiescent
  /\ response = [op |-> "delete", res |-> "notFound"]
  /\ DOMAIN reviews = ReviewIds
  /\ \E r1, r2 \in DOMAIN reviews : reviews[r1].userId # reviews[r2].userId

\* client s takes a step of the aggregator for a movie that is gone
HookOnMissingMovie(s) ==
  /\ req[s].pc \in {"aggRead", "aggWrite"}
  /\ req[s].movieId \notin DOMAIN movies
  /\ req'[s] # req[s]

\* C12: an aggregator step for a movie that no longer exists (deleted after
\* the submit's existence check, or before a later save of one of its
\* reviews) writes nothing, and the request that triggered it is answered
\* with success (201 for a submit, 200 for a Mark helpful), its review
\* stored.
C12_MissingMovieIsNoOp ==
  [][\A s \in Clients :
       HookOnMissingMovie(s)
       => /\ Store' = Store
          /\ req[s].reviewId \in DOMAIN reviews'
          /\ response' = [op |-> req[s].op,
                          res |-> IF req[s].op = "submit"
                                  THEN "created" ELSE "ok"]]_vars

\* C12 witness: the request answered last is a submit answered 201, its
\* review is stored and no movie is left
C12_Witness ==
  /\ Quiescent
  /\ response = [op |-> "submit", res |-> "created"]
  /\ DOMAIN movies = {}
  /\ DOMAIN reviews # {}

\* every stored review has a rating and a text length the submit accepts
ReviewsWellFormed ==
  \A r \in DOMAIN reviews :
    ValidRating(reviews[r].rating) /\ ValidText(reviews[r].reviewText)

\* C13: a submit whose rating is outside 1..5 or whose text length is
\* outside 10..2000 is answered with the validation error, a valid submit
\* for a movie id that does not exist is answered 'not found', and in both
\* cases the request ends there with no review created and no movie changed;
\* so every stored review has a rating in 1..5 and a text of 10..2000.
C13_RejectedSubmitChangesNothing ==
  /\ []ReviewsWellFormed
  /\ [][\A s \in Clients, u \in Users, m \in MovieIds,
          rating \in LimitRatings, text \in LimitTexts :
          SubmitReview(s, u, m, rating, text)
          => /\ ~(ValidRating(rating) /\ ValidText(text))
                => /\ response' = [op |-> "submit", res |-> "validation"]
                   /\ req'[s] = IdleReq /\ Store' = Store
             /\ (ValidRating(rating) /\ ValidText(text)
                 /\ m \notin DOMAIN movies)
                => /\ response' = [op |-> "submit", res |-> "notFound"]
                   /\ req'[s] = IdleReq /\ Store' = Store]_vars

\* C13 witness: a submit for a deleted movie was just answered 'not found'
\* while a review is stored and a movie has been deleted
C13_Witness ==
  /\ Quiescent
  /\ response = [op |-> "submit", res |-> "notFound"]
  /\ DOMAIN movies # MovieIds
  /\ DOMAIN reviews # {}

\* the value a review field has after an edit that supplied `given`
Edited(given, stored) == IF given # Undefined THEN given ELSE stored

\* C14: the update of an edit sets the rating and the reviewText to the
\* values the request supplies and leaves an unsupplied one as stored; it
\* changes neither the review's userId, movieId or helpfulVotes nor any
\* other review.
C14_EditChangesSuppliedFieldsOnly ==
  [][\A s \in Clients :
       (/\ req[s].op = "edit" /\ req[s].pc = "update" /\ req'[s] # req[s]
        /\ req[s].reviewId \in DOMAIN reviews)
       => LET rid == req[s].reviewId
          IN /\ DOMAIN reviews' = DOMAIN reviews
             /\ \A r \in DOMAIN reviews \ {rid} : reviews'[r] = reviews[r]
             /\ reviews'[rid].rating
                  = Edited(req[s].rating, reviews[rid].rating)
             /\ reviews'[rid].reviewText
                  = Edited(req[s].reviewText, reviews[rid].reviewText)
             /\ reviews'[rid].userId = reviews[rid].userId
             /\ reviews'[rid].movieId = reviews[rid].movieId
             /\ reviews'[rid].helpfulVotes = reviews[rid].helpfulVotes]_vars

\* C14 witness: an edit was just answered 200 and a stored review has the
\* edited text, the rating it was submitted with and a helpful vote
C14_Witness ==
  /\ Quiescent
  /\ response = [op |-> "edit", res |-> "ok"]
  /\ \E r \in DOMAIN reviews :
       /\ reviews[r].reviewText = MinTextLen + 1
       /\ reviews[r].rating = MaxRating
       /\ reviews[r].helpfulVotes >= 1

\* C15: in every reachable state each movie's averageRating lies in 0..5
\* (0..50 in tenths), whatever review operations, aggregator runs and
\* catalog create and update requests produced the state.
C15_AverageInRange ==
  \A m \in DOMAIN movies : ValidAverage(movies[m].averageRating10)

\* this step is the first of a Mark helpful of caller u on the stored review
\* rid, and the call goes on to its save
HelpfulAccepted(s, u, rid) ==
  (rid \in DOMAIN reviews /\ MarkHelpful(s, u, rid))
  => /\ req'[s].op = "helpful" /\ req'[s].pc = "save"
     /\ req'[s].reviewId = rid

\* C16 as claimed: Mark helpful on an existing review goes through for any
\* caller, a caller without authentication included.
C16_HelpfulForAnyCaller ==
  [][\A s \in Clients, u \in Callers, rid \in ReviewIds :
       HelpfulAccepted(s, u, rid)]_vars

\* C16 amended: Mark helpful on an existing review goes through for any
\* authenticated caller, the review's author included and however often the
\* caller has called before; its save on the still stored review writes the
\* counter, and the call is then answered 200.
C16_HelpfulForAnyAuthenticatedCaller ==
  [][\A s \in Clients :
       /\ \A u \in Users, rid \in ReviewIds : HelpfulAccepted(s, u, rid)
       /\ (/\ req[s].op = "helpful" /\ req[s].pc = "save"
           /\ req'[s] # req[s] /\ req[s].reviewId \in DOMAIN reviews)
          => /\ req'[s].pc = "aggRead"
             /\ reviews'[req[s].reviewId].helpfulVotes = req[s].doc + 1
       /\ (/\ req[s].op = "helpful" /\ req[s].pc \in {"aggRead", "aggWrite"}
           /\ req'[s] = IdleReq)
          => response' = [op |-> "helpful", res |-> "ok"]]_vars

\* C16 witness: the save of a Mark helpful sent by the review's own author
\* has written the counter's second vote
C16_Witness ==
  \E s \in Clients :
    /\ req[s].op = "helpful" /\ req[s].pc = "aggRead"
    /\ req[s].reviewId \in DOMAIN reviews
    /\ reviews[req[s].reviewId].userId = req[s].userId
    /\ reviews[req[s].reviewId].helpfulVotes = 2

\* no two watchlist entries have the same user and movie
UniqueWatchlist ==
  \A w1, w2 \in watchlist :
    (w1.userId = w2.userId /\ w1.movieId = w2.movieId) => w1 = w2

\* client s takes a step of its watchlist add while its user already has an
\* entry for the movie
AddOverExisting(s) ==
  /\ req[s].op = "wlAdd" /\ req'[s] # req[s]
  /\ InWatchlist(req[s].userId, req[s].movieId)

\* C17: in every reachable state there is at most one watchlist entry per
\* (user, movie); an add whose lookup finds the user's entry for the movie
\* answers conflict, and no step of an add taken while that entry is stored
\* changes the watchlist; an add sent without a status goes on with status
\* want_to_watch, and the entry an add inserts has the status it goes on
\* with.
C17_OneEntryPerUserAndMovie ==
  /\ []UniqueWatchlist
  /\ [][\A s \in Clients :
          /\ AddOverExisting(s)
             => /\ watchlist' = watchlist
                /\ req[s].pc = "findExisting"
                   => response' = [op |-> "wlAdd", res |-> "conflict"]
          /\ \A u \in Users, m \in MovieIds :
               (m \in DOMAIN movies /\ AddToWatchlist(s, u, m, NoStatus))
               => /\ req'[s].pc = "findExisting"
                  /\ req'[s].status = "want_to_watch"
          /\ (/\ req[s].op = "wlAdd" /\ req[s].pc = "save"
              /\ req'[s] # req[s]
              /\ ~InWatchlist(req[s].userId, req[s].movieId))
             => /\ watchlist' = watchlist \cup
                     {[userId |-> req[s].userId, movieId |-> req[s].movieId,
                       status |-> req[s].status]}
                /\ response' = [op |-> "wlAdd", res |-> "created"]]_vars

\* C17 witness: an add was just answered conflict, and the one entry of the
\* watchlist, the one it ran into, still has the status an update gave it
C17_Witness ==
  /\ Quiescent
  /\ response = [op |-> "wlAdd", res |-> "conflict"]
  /\ Cardinality(watchlist) = 1
  /\ \E w \in watchlist : w.status = "watched"

\* the number of user u's watchlist entries with status st
EntriesWith(u, st) ==
  Cardinality({w \in watchlist : w.userId = u /\ w.status = st})

\* C18: the stats answered for a user have exactly the buckets
\* want_to_watch, watching and watched and a total; each bucket is the
\* number of the user's entries with that status (0 for none) and the total
\* is the sum of the three buckets and the number of the user's entries.
C18_StatsCountEntries ==
  [][\A s \in Clients, u \in Users :
       GetWatchlistStats(s, u)
       => LET stats == response'.res
          IN /\ response'.op = "wlStats"
             /\ DOMAIN stats = Statuses \cup {"total"}
             /\ \A st \in Statuses : stats[st] = EntriesWith(u, st)
             /\ stats.total
                  = stats.want_to_watch + stats.watching + stats.watched
             /\ stats.total
                  = Cardinality({w \in watchlist : w.userId = u})]_vars

\* C18 witness: stats were just answered with one entry watching, one
\* watched, none want_to_watch and a total of 2
C18_Witness ==
  /\ response.op = "wlStats"
  /\ response.res = [want_to_watch |-> 0, watching |-> 1, watched |-> 1,
                      total |-> 2]

\* n is the least integer that is at least total / limit
IsCeil(n, total, limit) ==
  IF limit > 0
  THEN n * limit >= total /\ (n - 1) * limit < total
  ELSE n * limit <= total /\ (n - 1) * limit > total

\* the positions skip+1 .. skip+limit of a result of `total` documents
PagePositions(total, skip, limit) ==
  {i \in 1..total : skip + 1 <= i /\ i <= skip + limit}

\* the answer res is that of a listing with this page, limit and skip
PaginationHolds(res, total, page, limit, skip) ==
  /\ IsCeil(res.totalPages, total, limit)
  /\ res.hasNext = (page < res.totalPages)
  /\ res.hasPrev = (page > 1)
  /\ {res.items[i] : i \in DOMAIN res.items} = PagePositions(total, skip, limit)
  /\ \A i, j \in DOMAIN res.items : i < j => res.items[i] < res.items[j]

\* this step answers a listing of `total` documents with a page
ListingAnswered(s, total, pageQuery, limitQuery) ==
  /\ \/ ListReviews(s, total, pageQuery, limitQuery)
     \/ ListWatchlist(s, total, pageQuery, limitQuery)
     \/ ListMovies(s, total, pageQuery, limitQuery)
  /\ response'.res.status = 200

\* the default limit of the listing answered last
DefaultLimit(op) ==
  IF op = "listReviews" THEN ReviewsLimit
  ELSE IF op = "listWatchlist" THEN WatchlistLimit ELSE MoviesLimit

\* C19: every listing answer carries totalPages = ceil(total / limit),
\* hasNext = (page < totalPages), hasPrev = (page > 1) and the items at the
\* positions skip+1 .. skip+limit of the ordered result, skip being
\* (page - 1) * limit; page 2 with limit 2 over 5 items gives items 3 and 4,
\* totalPages 3, hasNext and hasPrev.
C19_PaginationFields ==
  [][\A s \in Clients, total \in 0..MaxItems,
       pageQuery \in PageQueries, limitQuery \in LimitQueries :
       ListingAnswered(s, total, pageQuery, limitQuery)
       => LET default == DefaultLimit(response'.op)
          IN PaginationHolds(response'.res, total, PageOf(pageQuery),
                             LimitOf(limitQuery, default),
                             SkipOf(pageQuery, limitQuery, default))]_vars

\* C20: in every listing the page used for the query is at least 1 and the
\* skip computed from it is not negative, whatever the request's page and
\* limit are.
C20_PageAtLeastOne ==
  [][\A s \in Clients, total \in 0..MaxItems,
       pageQuery \in PageQueries, limitQuery \in LimitQueries :
       (\/ ListReviews(s, total, pageQuery, limitQuery)
        \/ ListWatchlist(s, total, pageQuery, limitQuery)
        \/ /\ ListMovies(s, total, pageQuery, limitQuery)
           /\ response'.res.status # 400)
       => /\ PageOf(pageQuery) >= 1
          /\ SkipOf(pageQuery, limitQuery, DefaultLimit(response'.op)) >= 0]_vars

\* C21: every review and watchlist request that has started is eventually
\* answered, on every path through its handler, provided each store round
\* trip eventually returns or fails; and a step answers the request of at
\* most one client.
C21_EveryRequestIsAnswered ==
  /\ \A s \in Clients : InFlight(s) ~> ~InFlight(s)
  /\ [][\A s1, s2 \in Clients :
          (/\ InFlight(s1) /\ ~InFlight(s1)'
           /\ InFlight(s2) /\ ~InFlight(s2)') => s1 = s2]_vars

\* C21 witness: a Mark helpful whose save failed (the review was deleted
\* under it) has been answered 500 and no request is in flight
C21_Witness ==
  /\ Quiescent
  /\ response = [op |-> "helpful", res |-> "serverError"]

\* C22: no step of a Mark-helpful request changes a movie: averageRating and
\* totalReviews are after the call what they were before it, also when a
\* rating was edited before.
C22_HelpfulLeavesMoviesAlone ==
  [][\A s \in Clients :
       (req[s].op = "helpful" /\ req'[s] # req[s]) => movies' = movies]_vars

\* C23: a create or an update of a movie by an admin leaves the averageRating
\* and totalReviews of every stored movie as they were, and a movie it
\* creates starts with averageRating 0 and totalReviews 0.
C23_AdminLeavesAggregates ==
  [][\A s \in Clients, m \in MovieIds :
       (\/ \E average \in NewMovieAverages : AddMovie(s, m, average)
        \/ \E body \in MovieBodies : UpdateMovie(s, m, body))
       => \A x \in DOMAIN movies' :
            movies'[x] = IF x \in DOMAIN movies THEN movies[x] ELSE NewMovie]_vars

\* C24: the delete of a stored movie removes that movie record and nothing
\* else: the other movies, every review and every watchlist entry stay as
\* they were, so the reviews and entries of the deleted movie now refer to
\* no stored movie.
C24_DeleteMovieOnly ==
  [][\A s \in Clients, m \in MovieIds :
       (DeleteMovie(s, m) /\ m \in DOMAIN movies)
       => /\ movies' = [x \in DOMAIN movies \ {m} |-> movies[x]]
          /\ reviews' = reviews
          /\ watchlist' = watchlist
          /\ \A r \in DOMAIN reviews : reviews[r].movieId = m =>
                /\ r \in DOMAIN reviews'
                /\ reviews'[r].movieId \notin DOMAIN movies'
          /\ \A w \in watchlist : w.movieId = m =>
                w \in watchlist' /\ w.movieId \notin DOMAIN movies']_vars

\* a movie was deleted, and a review and a watchlist entry of it are stored
C24_Witness ==
  /\ response = [op |-> "movieDelete", res |-> "ok"]
  /\ \E m \in MovieIds \ DOMAIN movies :
       /\ \E r \in DOMAIN reviews : reviews[r].movieId = m
       /\ \E w \in watchlist : w.movieId = m

\* C25: in every interleaving, the step at which an edit answers 'Review
\* updated successfully' has updated a stored review, and the answer
\* carries that review and not null.
C25_EditSuccessMeansUpdated ==
  [][\A s \in Clients :
       (/\ UpdateReviewWrite(s)
        /\ response'.res \in {"ok", "okNull"})
       => /\ req[s].reviewId \in DOMAIN reviews
          /\ req[s].reviewId \in DOMAIN reviews'
          /\ response'.res = "ok"]_vars

\* C26: of the delete requests the owner sends for one review, in any
\* interleaving, the one that finds the review answers success and removes
\* it, every other answers 'not found' and removes nothing, and a removed
\* review never comes back, so exactly one succeeds; likewise for the
\* removals of one watchlist entry.
C26_OneDeleteSucceeds ==
  [][/\ \A s \in Clients, u \in Users, rid \in ReviewIds :
          DeleteReview(s, u, rid)
          => IF rid \in DOMAIN reviews /\ reviews[rid].userId = u
             THEN /\ response' = [op |-> "delete", res |-> "ok"]
                  /\ reviews' = [r \in DOMAIN reviews \ {rid} |-> reviews[r]]
             ELSE /\ response' = [op |-> "delete", res |-> "notFound"]
                  /\ reviews' = reviews
     /\ \A rid \in ReviewIds :
          (rid < nextReviewId /\ rid \notin DOMAIN reviews)
          => rid \notin DOMAIN reviews'
     /\ \A s \in Clients, u \in Users, m \in MovieIds :
          RemoveFromWatchlist(s, u, m)
          => IF InWatchlist(u, m)
             THEN /\ response' = [op |-> "wlRemove", res |-> "ok"]
                  /\ ~InWatchlist(u, m)'
                  /\ Cardinality(watchlist') = Cardinality(watchlist) - 1
             ELSE /\ response' = [op |-> "wlRemove", res |-> "notFound"]
                  /\ watchlist' = watchlist]_vars

\* a review was created and removed, and a later delete found nothing
C26_Witness ==
  /\ response = [op |-> "delete", res |-> "notFound"]
  /\ nextReviewId = 2 /\ DOMAIN reviews = {}

\* C27: the statistics answered for a user by GET /users/:id and by
\* GET /users/:id/stats are those of the stored data: each watchlist bucket
\* is the number of the user's entries with that status, total is their
\* sum, totalReviews is the number of the user's reviews, and the watchlist
\* statistics are the ones the watchlist Stats operation computes.
C27_UserStatsMatchStore ==
  [][\A s \in Clients, u \in Users :
       (\/ GetUserProfile(s, ToHexString(u))
        \/ GetUserStats(s, ToHexString(u)))
       => LET res == response'.res
          IN /\ res.status = 200
             /\ \A st \in Statuses :
                  res.watchlistStats[st] = EntriesWith(u, st)
             /\ res.watchlistStats.total
                  = Cardinality({w \in watchlist : w.userId = u})
             /\ res.watchlistStats = FormatStats(GroupByStatus(u), ZeroStats)
             /\ res.totalReviews = ReviewCount(u)]_vars

====
